---- MODULE Spec2Model ----
(***************************************************************************)
(* The New Executable header of win16ne (src/ne/header.rs): the NeHeader   *)
(* record, NeHeader::read, NeHeader::check_magic and the test module's     *)
(* endian-free view NeHeader2.                                             *)
(*                                                                         *)
(* A byte source is an io::Read: it holds bytes and a read position, hands *)
(* out at most as many bytes per read call as it likes, and may fail a     *)
(* read call.  Each decode is a thread of control: it enters read, runs    *)
(* the read_exact loop one read call at a time, and returns.               *)
(***************************************************************************)
EXTENDS Integers, Sequences, FiniteSets, TLC

VARIABLES
    host,       \* byte order of the machine the program was built for
    lualign,    \* alignment the build gives Lu16 / Lu32
    src,        \* p -> the byte source decode p reads (fixed after Init)
    pos,        \* p -> read position of the source
    ncalls,     \* p -> read calls the source has served so far
    pc,         \* p -> "idle" | "reading" | "done"
    buf,        \* p -> the local buffer of NeHeader::read
    filled,     \* p -> bytes of buf the read_exact loop has filled
    start,      \* p -> source position when the current decode was entered
    lastRead,   \* p -> outcome of the latest read call of the current decode
    results,    \* p -> the io::Result of every decode returned so far
    magicRes,   \* p -> the results of check_magic on the latest record
    view        \* p -> NeHeader2::from of the latest record, or NoView

vars == <<host, lualign, src, pos, ncalls, pc, buf, filled, start, lastRead,
          results, magicRes, view>>

-----------------------------------------------------------------------------
\* Bounds of the model.
MaxDecodes == 2     \* decodes one source is asked for
MaxChecks == 2      \* check_magic calls on one record
MaxFaultCall == 2   \* the latest read call of a source that may fail

\* let mut buf = [0; 0x40];
\* (a buffer one byte too long: [0; 0x41])
BufSize_long == 64 + 1
BufSize == 64

Min(a, b) == IF a < b THEN a ELSE b
Max(a, b) == IF a < b THEN b ELSE a
Last(s) == s[Len(s)]

-----------------------------------------------------------------------------
\* The record layout.

\* The fields of struct NeHeader in declaration order, each with its type.
Fields == <<
    <<"magic", "u8x2">>,
    <<"major_linker_version", "u8">>,
    <<"minor_linker_version", "u8">>,
    <<"entry_table_offset", "Lu16">>,
    <<"entry_table_length", "Lu16">>,
    <<"file_load_crc", "Lu32">>,
    <<"flags", "Lu16">>,
    <<"auto_data_segment_index", "Lu16">>,
    <<"init_heap_size", "Lu16">>,
    <<"init_stack_size", "Lu16">>,
    <<"entry_point", "Lu32">>,
    <<"init_stack", "Lu32">>,
    <<"segment_count", "Lu16">>,
    <<"module_references", "Lu16">>,
    <<"non_resident_names_size", "Lu16">>,
    <<"segment_table_offset", "Lu16">>,
    <<"resource_table_offset", "Lu16">>,
    <<"resident_names_table_offset", "Lu16">>,
    <<"module_reference_table_offset", "Lu16">>,
    <<"import_name_table_offset", "Lu16">>,
    <<"non_resident_names_table_offset", "Lu32">>,
    <<"movable_entry_point_count", "Lu16">>,
    <<"file_alignment_shift_count", "Lu16">>,
    <<"resource_table_entries", "Lu16">>,
    <<"target_os", "u8">>,
    <<"os2_exe_flags", "u8">>,
    <<"return_thunk_offset", "Lu16">>,
    <<"segment_reference_thunk_offset", "Lu16">>,
    <<"min_code_swap", "Lu16">>,
    <<"expected_win_ver", "u8x2">> >>

FieldName(i) == Fields[i][1]
\* (file_load_crc declared Lu16 instead of Lu32)
FieldKind_crc16(i) == IF i = 6 THEN "Lu16" ELSE Fields[i][2]
FieldKind(i) == Fields[i][2]
FieldNames == {FieldName(i) : i \in 1..Len(Fields)}

\* size_of of a field type.
KindSize(k) ==
    CASE k = "u8" -> 1
      [] k = "u8x2" -> 2
      [] k = "Lu16" -> 2
      [] k = "Lu32" -> 4

\* align_of of a field type.  u8 and [u8; 2] are byte aligned; Lu16 and Lu32 are
\* byte aligned when they wrap a byte array and naturally aligned when they wrap
\* an integer: the build decides (lualign).
Aligns == {"byte", "natural"}
KindAlign(k, mode) ==
    IF k \in {"Lu16", "Lu32"} /\ mode = "natural" THEN KindSize(k) ELSE 1

RoundUp(x, a) == ((x + a - 1) \div a) * a

\* #[repr(C)]: every field sits at the first offset past the previous field that
\* its alignment allows.  The offsets of the first n fields.
RECURSIVE ReprC(_, _)
ReprC(n, mode) ==
    IF n = 0 THEN <<>>
    ELSE LET prev == ReprC(n - 1, mode)
             end == IF n = 1 THEN 0
                    ELSE prev[n - 1] + KindSize(FieldKind(n - 1))
         IN  Append(prev, RoundUp(end, KindAlign(FieldKind(n), mode)))

OffsetsByte == ReprC(Len(Fields), "byte")
OffsetsNatural == ReprC(Len(Fields), "natural")
Offsets(mode) == IF mode = "natural" THEN OffsetsNatural ELSE OffsetsByte

FieldOffset(i, mode) == Offsets(mode)[i]
FieldEnd(i, mode) == FieldOffset(i, mode) + KindSize(FieldKind(i))

RECURSIVE MaxAlign(_, _)
MaxAlign(n, mode) ==
    IF n = 0 THEN 1 ELSE Max(KindAlign(FieldKind(n), mode), MaxAlign(n - 1, mode))

\* std::mem::size_of::<NeHeader>()
SizeOfNeHeader(mode) ==
    RoundUp(FieldEnd(Len(Fields), mode), MaxAlign(Len(Fields), mode))

-----------------------------------------------------------------------------
\* Results.

Ok(h) == [tag |-> "Ok", hdr |-> h]
Err(k) == [tag |-> "Err", kind |-> k]
OkUnit == [tag |-> "Ok"]

\* bytemuck::cast(buf): the bytes of the buffer become the fields of the
\* record, each field the bytes at its offset.
cast(b, mode) ==
    [f \in FieldNames |->
        LET i == CHOOSE j \in 1..Len(Fields) : FieldName(j) = f
        IN  SubSeq(b, FieldOffset(i, mode) + 1, FieldEnd(i, mode))]

\* The bytes of a record as it lies in memory, field after field; a padding
\* byte, which no field owns, reads as -1.
RECURSIVE RecordBytesUpTo(_, _, _)
RecordBytesUpTo(h, n, mode) ==
    IF n = 0 THEN <<>>
    ELSE LET prev == RecordBytesUpTo(h, n - 1, mode)
             gap == FieldOffset(n, mode) - Len(prev)
         IN  prev \o [k \in 1..gap |-> -1] \o h[FieldName(n)]
RecordBytes(h, mode) == RecordBytesUpTo(h, Len(Fields), mode)

-----------------------------------------------------------------------------
\* Lu16 / Lu32 (crate::util::endian): raw little-endian bytes at rest, value()
\* gives the native integer.  A u32 is kept as two 16-bit halves, hi * 65536 +
\* lo, so that every value of the type can be written down.

Hosts == {"little", "big"}

\* What the machine reads when it loads the bytes as one native integer.
NativeLoad16(b, hst) ==
    IF hst = "little" THEN b[1] + 256 * b[2] ELSE 256 * b[1] + b[2]
NativeLoad32(b, hst) ==
    IF hst = "little"
    THEN [hi |-> b[3] + 256 * b[4], lo |-> b[1] + 256 * b[2]]
    ELSE [hi |-> 256 * b[1] + b[2], lo |-> 256 * b[3] + b[4]]

swap_bytes16(x) == (x % 256) * 256 + (x \div 256)
swap_bytes32(x) == [hi |-> swap_bytes16(x.lo), lo |-> swap_bytes16(x.hi)]

\* from_le: the identity on a little-endian host, a byte swap on a big-endian one.
Lu16_value(b, hst) ==
    IF hst = "little" THEN NativeLoad16(b, hst)
    ELSE swap_bytes16(NativeLoad16(b, hst))
Lu32_value(b, hst) ==
    IF hst = "little" THEN NativeLoad32(b, hst)
    ELSE swap_bytes32(NativeLoad32(b, hst))

-----------------------------------------------------------------------------
\* NeHeader2::from and NeHeader::check_magic.

KindOf(f) == FieldKind(CHOOSE j \in 1..Len(Fields) : FieldName(j) = f)

\* One line of the From impl: the field itself, or its value().
FieldView(h, f, hst) ==
    CASE KindOf(f) = "u8x2" -> h[f]
      [] KindOf(f) = "u8" -> h[f][1]
      [] KindOf(f) = "Lu16" -> Lu16_value(h[f], hst)
      [] KindOf(f) = "Lu32" -> Lu32_value(h[f], hst)

\* (entry_point filled from h.init_stack)
From_NeHeader_crossed(h, hst) ==
    [f \in FieldNames |->
        FieldView(h, IF f = "entry_point" THEN "init_stack" ELSE f, hst)]

From_NeHeader(h, hst) == [f \in FieldNames |-> FieldView(h, f, hst)]

NoView == [none |-> TRUE]

\* b"NE"
MagicNE == <<78, 69>>

\* (only the first byte of the signature compared)
check_magic_first_byte(h) ==
    IF h["magic"][1] # MagicNE[1] THEN Err("InvalidInput") ELSE OkUnit

check_magic(h) ==
    IF h["magic"] # MagicNE THEN Err("InvalidInput") ELSE OkUnit

-----------------------------------------------------------------------------
\* Byte sources.

\* The buffer of the test test_ne_header.
TestVec == <<
    78, 69, 5, 10, 108, 1, 2, 0, 70, 69, 82, 71, 18, 3, 2, 0,
    0, 16, 0, 80, 16, 0, 1, 0, 0, 0, 2, 0, 9, 0, 1, 0,
    28, 0, 64, 0, 144, 0, 84, 1, 96, 1, 98, 1, 110, 7, 0, 0,
    0, 0, 8, 0, 255, 255, 2, 8, 0, 0, 0, 0, 0, 0, 0, 3 >>

WithMagic(m, d) == m \o SubSeq(d, 3, Len(d))

MZVec == WithMagic(<<77, 90>>, TestVec)
HighVec == [i \in 1..64 |-> (37 * i + 200) % 256]
NEHigh == WithMagic(MagicNE, HighVec)
NXVec == WithMagic(<<78, 88>>, HighVec)
XEVec == WithMagic(<<88, 69>>, HighVec)
ENVec == WithMagic(<<69, 78>>, TestVec)

\* What a source holds and where its read position starts.
Media ==
    { [data |-> d, start |-> 0] :
        d \in { TestVec, MZVec, HighVec, NEHigh, NXVec, XEVec, ENVec,
                <<>>, SubSeq(TestVec, 1, 1), SubSeq(TestVec, 1, 63),
                TestVec \o MZVec \o <<1, 2>>, MZVec \o NEHigh } }
    \cup
    { [data |-> <<9, 9, 9>> \o d, start |-> 3] :
        d \in { NEHigh \o TestVec, SubSeq(TestVec, 1, 63) } }

\* How a source splits its bytes over read calls: the k-th call hands out at
\* most split[k] bytes, cyclically.
Splits == { <<64>>, <<1>>, <<7>>, <<1, 40, 3>>, <<63, 1>>, <<100>> }

\* The read call that fails, and how; call 0 is never made.
NoFault == [call |-> 0, kind |-> "none"]
ErrorKinds == {"Interrupted", "InvalidInput", "TimedOut"}
Faults == {NoFault} \cup [call : 1..MaxFaultCall, kind : ErrorKinds]

SourceSet ==
    { [data |-> m.data, start |-> m.start, split |-> sp, fault |-> f] :
        m \in Media, sp \in Splits, f \in Faults }

SplitAt(s, k) == s.split[((k - 1) % Len(s.split)) + 1]

\* r.read(buf): the k-th read call on source s, at position ps, into a buffer
\* of want bytes.
SourceRead(s, ps, k, want) ==
    IF s.fault.call = k
    THEN [tag |-> "Err", kind |-> s.fault.kind, n |-> 0, bytes |-> <<>>]
    ELSE LET n == Min(want, Min(Len(s.data) - ps, SplitAt(s, k)))
         IN  [tag |-> "Ok", kind |-> "none", n |-> n,
              bytes |-> SubSeq(s.data, ps + 1, ps + n)]

-----------------------------------------------------------------------------
\* NeHeader::read, on the state of one decode:
\*   [pc, pos, ncalls, buf, filled, start, lastRead, results].

\* Err(ref e) if e.is_interrupted() => {}
\* (every error ignored: Err(_) => {})
Retryable_any(kind) == TRUE
Retryable(kind) == kind = "Interrupted"

\* buf = &mut buf[n..]: the bytes read land behind those already there.
\* (the slice not advanced: every read lands at the front of buf)
CopyInto_front(b, f, bytes) ==
    [i \in 1..Len(b) |-> IF i <= Len(bytes) THEN bytes[i] ELSE b[i]]
CopyInto(b, f, bytes) ==
    [i \in 1..Len(b) |->
        IF f < i /\ i <= f + Len(bytes) THEN bytes[i - f] ELSE b[i]]

\* The end of read_exact and of read: a buffer not filled is UnexpectedEof,
\* a filled one is cast.
\* (read in place of read_exact: a short buffer is cast all the same)
Finish_partial(b, f, mode) == Ok(cast(b, mode))
Finish(b, f, mode) ==
    IF f < Len(b) THEN Err("UnexpectedEof") ELSE Ok(cast(b, mode))

Return(st, res) ==
    [st EXCEPT !.pc = "done", !.results = Append(@, res)]

read_enter(st) ==
    [st EXCEPT !.pc = "reading", !.buf = [i \in 1..BufSize |-> 0],
               !.filled = 0, !.start = st.pos, !.lastRead = "none"]

\* One turn of the read_exact loop, and what follows it when the loop ends.
read_exact_step(st, s, mode) ==
    LET o == SourceRead(s, st.pos, st.ncalls + 1, Len(st.buf) - st.filled)
        st1 == [st EXCEPT !.ncalls = @ + 1,
                          !.lastRead = IF o.tag = "Ok" THEN "Ok" ELSE o.kind]
    IN  CASE o.tag = "Err" /\ Retryable(o.kind) -> st1
          [] o.tag = "Err" -> Return(st1, Err(o.kind))
          [] o.tag = "Ok" /\ o.n = 0 ->
                Return(st1, Finish(st1.buf, st1.filled, mode))
          [] OTHER ->
                LET st2 == [st1 EXCEPT
                                !.buf = CopyInto(@, st1.filled, o.bytes),
                                !.filled = @ + o.n,
                                !.pos = @ + o.n]
                IN  IF st2.filled = Len(st2.buf)
                    THEN Return(st2, Finish(st2.buf, st2.filled, mode))
                    ELSE st2

-----------------------------------------------------------------------------
\* The state machine.

Procs == DOMAIN src

St(p) ==
    [pc |-> pc[p], pos |-> pos[p], ncalls |-> ncalls[p], buf |-> buf[p],
     filled |-> filled[p], start |-> start[p], lastRead |-> lastRead[p],
     results |-> results[p]]

InitSt(s) ==
    [pc |-> "idle", pos |-> s.start, ncalls |-> 0, buf |-> <<>>,
     filled |-> 0, start |-> s.start, lastRead |-> "none", results |-> <<>>]

\* The decode state of p becomes st; every other decode keeps its own.
Put(p, st) ==
    /\ pc' = [pc EXCEPT ![p] = st.pc]
    /\ pos' = [pos EXCEPT ![p] = st.pos]
    /\ ncalls' = [ncalls EXCEPT ![p] = st.ncalls]
    /\ buf' = [buf EXCEPT ![p] = st.buf]
    /\ filled' = [filled EXCEPT ![p] = st.filled]
    /\ start' = [start EXCEPT ![p] = st.start]
    /\ lastRead' = [lastRead EXCEPT ![p] = st.lastRead]
    /\ results' = [results EXCEPT ![p] = st.results]

InitWith(sources, n) ==
    /\ host \in Hosts
    /\ lualign \in Aligns
    /\ src \in [1..n -> sources]
    /\ pos = [p \in 1..n |-> src[p].start]
    /\ ncalls = [p \in 1..n |-> 0]
    /\ pc = [p \in 1..n |-> "idle"]
    /\ buf = [p \in 1..n |-> <<>>]
    /\ filled = [p \in 1..n |-> 0]
    /\ start = [p \in 1..n |-> src[p].start]
    /\ lastRead = [p \in 1..n |-> "none"]
    /\ results = [p \in 1..n |-> <<>>]
    /\ magicRes = [p \in 1..n |-> <<>>]
    /\ view = [p \in 1..n |-> NoView]

Init == InitWith(SourceSet, 1)

\* The caller calls NeHeader::read(&mut r) on its source.  The buffer is a
\* local of the call; the record of an earlier decode is dropped.
\* (the buffer a static shared by all calls in place of a local)
ReadEnter_static_buf(p) ==
    /\ pc[p] \in {"idle", "done"}
    /\ Len(results[p]) < MaxDecodes
    /\ LET st == read_enter(St(p))
       IN  /\ pc' = [pc EXCEPT ![p] = st.pc]
           /\ start' = [start EXCEPT ![p] = st.start]
           /\ lastRead' = [lastRead EXCEPT ![p] = st.lastRead]
           /\ buf' = [q \in Procs |-> st.buf]
           /\ filled' = [q \in Procs |-> 0]
    /\ magicRes' = [magicRes EXCEPT ![p] = <<>>]
    /\ view' = [view EXCEPT ![p] = NoView]
    /\ UNCHANGED <<host, lualign, src, pos, ncalls, results>>

ReadEnter(p) ==
    /\ pc[p] \in {"idle", "done"}
    /\ Len(results[p]) < MaxDecodes
    /\ Put(p, read_enter(St(p)))
    /\ magicRes' = [magicRes EXCEPT ![p] = <<>>]
    /\ view' = [view EXCEPT ![p] = NoView]
    /\ UNCHANGED <<host, lualign, src>>

\* One read call of read_exact; the call that ends the loop also returns.
ReadExactStep(p) ==
    /\ pc[p] = "reading"
    /\ Put(p, read_exact_step(St(p), src[p], lualign))
    /\ UNCHANGED <<host, lualign, src, magicRes, view>>

HasRecord(p) ==
    /\ pc[p] = "done"
    /\ Len(results[p]) > 0
    /\ Last(results[p]).tag = "Ok"

Record(p) == Last(results[p]).hdr

\* The caller calls h.check_magic() on the record it holds.
\* (a check_magic that clears the signature it has checked)
CallCheckMagic_taking(p) ==
    /\ HasRecord(p)
    /\ Len(magicRes[p]) < MaxChecks
    /\ magicRes' = [magicRes EXCEPT ![p] = Append(@, check_magic(Record(p)))]
    /\ results' = [results EXCEPT ![p][Len(results[p])].hdr["magic"] = <<0, 0>>]
    /\ UNCHANGED <<host, lualign, src, pos, ncalls, pc, buf, filled, start,
                   lastRead, view>>

CallCheckMagic(p) ==
    /\ HasRecord(p)
    /\ Len(magicRes[p]) < MaxChecks
    /\ magicRes' = [magicRes EXCEPT ![p] = Append(@, check_magic(Record(p)))]
    /\ UNCHANGED <<host, lualign, src, pos, ncalls, pc, buf, filled, start,
                   lastRead, results, view>>

\* The caller calls NeHeader2::from(h) on the record it holds.
CallFrom(p) ==
    /\ HasRecord(p)
    /\ view[p] = NoView
    /\ view' = [view EXCEPT ![p] = From_NeHeader(Record(p), host)]
    /\ UNCHANGED <<host, lualign, src, pos, ncalls, pc, buf, filled, start,
                   lastRead, results, magicRes>>

Next ==
    \E p \in Procs :
        \/ ReadEnter(p)
        \/ ReadExactStep(p)
        \/ CallCheckMagic(p)
        \/ CallFrom(p)

Spec == Init /\ [][Next]_vars

\* Two decodes at once, each on a source of its own.
ConcSources ==
    { s \in SourceSet :
        /\ s.data \in { TestVec \o MZVec \o <<1, 2>>,
                        <<9, 9, 9>> \o SubSeq(TestVec, 1, 63) }
        /\ s.split \in { <<1, 40, 3>>, <<63, 1>> }
        /\ s.fault \in { NoFault,
                         [call |-> 2, kind |-> "Interrupted"],
                         [call |-> 2, kind |-> "TimedOut"] } }

InitConc == InitWith(ConcSources, 2)

NextConc ==
    \E p \in Procs :
        \/ ReadEnter(p)
        \/ ReadExactStep(p)

SpecConc == InitConc /\ [][NextConc]_vars

-----------------------------------------------------------------------------
\* What the claims are stated against.

\* size_of::<NeHeader>() as the test test_ne_header_size asserts it.
HeaderBytes == 64

\* The 64 source bytes a decode entered at position from is to return.
Window(s, from) == SubSeq(s.data, from + 1, from + HeaderBytes)
Available(s, from) == Len(s.data) - from

HardErrors == ErrorKinds \ {"Interrupted"}

\* The field table of the specification: offset, field, width, semantic type.
SpecTable == <<
    <<0, "magic", 2, "raw">>,
    <<2, "major_linker_version", 1, "byte">>,
    <<3, "minor_linker_version", 1, "byte">>,
    <<4, "entry_table_offset", 2, "le16">>,
    <<6, "entry_table_length", 2, "le16">>,
    <<8, "file_load_crc", 4, "le32">>,
    <<12, "flags", 2, "le16">>,
    <<14, "auto_data_segment_index", 2, "le16">>,
    <<16, "init_heap_size", 2, "le16">>,
    <<18, "init_stack_size", 2, "le16">>,
    <<20, "entry_point", 4, "le32">>,
    <<24, "init_stack", 4, "le32">>,
    <<28, "segment_count", 2, "le16">>,
    <<30, "module_references", 2, "le16">>,
    <<32, "non_resident_names_size", 2, "le16">>,
    <<34, "segment_table_offset", 2, "le16">>,
    <<36, "resource_table_offset", 2, "le16">>,
    <<38, "resident_names_table_offset", 2, "le16">>,
    <<40, "module_reference_table_offset", 2, "le16">>,
    <<42, "import_name_table_offset", 2, "le16">>,
    <<44, "non_resident_names_table_offset", 4, "le32">>,
    <<48, "movable_entry_point_count", 2, "le16">>,
    <<50, "file_alignment_shift_count", 2, "le16">>,
    <<52, "resource_table_entries", 2, "le16">>,
    <<54, "target_os", 1, "byte">>,
    <<55, "os2_exe_flags", 1, "byte">>,
    <<56, "return_thunk_offset", 2, "le16">>,
    <<58, "segment_reference_thunk_offset", 2, "le16">>,
    <<60, "min_code_swap", 2, "le16">>,
    <<62, "expected_win_ver", 2, "raw">> >>

\* The little-endian reading of the bytes of b at offset o.
LE16(b, o) == b[o + 1] + 256 * b[o + 2]
LE32(b, o) == [hi |-> LE16(b, o + 2), lo |-> LE16(b, o)]

\* The NeHeader2 the test test_ne_header expects of TestVec.
TestExpected ==
    [f \in FieldNames |->
        CASE f = "magic" -> <<78, 69>>
          [] f = "major_linker_version" -> 5
          [] f = "minor_linker_version" -> 10
          [] f = "entry_table_offset" -> 364
          [] f = "entry_table_length" -> 2
          [] f = "file_load_crc" -> [hi |-> 18258, lo |-> 17734]
          [] f = "flags" -> 786
          [] f = "auto_data_segment_index" -> 2
          [] f = "init_heap_size" -> 4096
          [] f = "init_stack_size" -> 20480
          [] f = "entry_point" -> [hi |-> 1, lo |-> 16]
          [] f = "init_stack" -> [hi |-> 2, lo |-> 0]
          [] f = "segment_count" -> 9
          [] f = "module_references" -> 1
          [] f = "non_resident_names_size" -> 28
          [] f = "segment_table_offset" -> 64
          [] f = "resource_table_offset" -> 144
          [] f = "resident_names_table_offset" -> 340
          [] f = "module_reference_table_offset" -> 352
          [] f = "import_name_table_offset" -> 354
          [] f = "non_resident_names_table_offset" -> [hi |-> 0, lo |-> 1902]
          [] f = "movable_entry_point_count" -> 0
          [] f = "file_alignment_shift_count" -> 8
          [] f = "resource_table_entries" -> 65535
          [] f = "target_os" -> 2
          [] f = "os2_exe_flags" -> 8
          [] f = "return_thunk_offset" -> 0
          [] f = "segment_reference_thunk_offset" -> 0
          [] f = "min_code_swap" -> 0
          [] f = "expected_win_ver" -> <<0, 3>>]

-----------------------------------------------------------------------------
\* C1: a decode of a source that yields at least 64 bytes from where the decode
\* was entered, whatever the split of the bytes over read calls, returns Ok, and
\* the bytes of the record are the 64 source bytes from there, in order.
C1_DecodeExact ==
    \A p \in Procs :
        ( /\ pc[p] = "done"
          /\ Available(src[p], start[p]) >= HeaderBytes
          /\ lastRead[p] \notin HardErrors )
        => /\ Last(results[p]).tag = "Ok"
           /\ RecordBytes(Last(results[p]).hdr, lualign)
                = Window(src[p], start[p])

\* A record decoded from bytes that came in three unequal pieces, after an
\* interrupted read call.
C1_Witness ==
    \E p \in Procs :
        /\ HasRecord(p)
        /\ src[p].split = <<1, 40, 3>>
        /\ src[p].fault = [call |-> 2, kind |-> "Interrupted"]
        /\ Window(src[p], start[p]) = HighVec

\* C2: in the view NeHeader2::from gives of a decoded record, every 2-byte and
\* 4-byte integer field is the little-endian reading of the source bytes at the
\* field's offset in the specification's table, on a little-endian and on a
\* big-endian host alike; byte and raw-byte fields are the source bytes
\* themselves.  The test's buffer gives the view the test expects.
C2_LittleEndianFields ==
    \A p \in Procs :
        view[p] # NoView =>
            LET b == Window(src[p], start[p])
            IN  /\ \A i \in 1..Len(SpecTable) :
                     LET o == SpecTable[i][1]
                         f == SpecTable[i][2]
                         ty == SpecTable[i][4]
                     IN  CASE ty = "le16" -> view[p][f] = LE16(b, o)
                           [] ty = "le32" -> view[p][f] = LE32(b, o)
                           [] ty = "byte" -> view[p][f] = b[o + 1]
                           [] ty = "raw" -> view[p][f] = <<b[o + 1], b[o + 2]>>
                /\ b = TestVec => view[p] = TestExpected

\* The view of a record whose integers have their high bits set, on a
\* big-endian host.
C2_Witness ==
    \E p \in Procs :
        /\ view[p] # NoView
        /\ host = "big"
        /\ Window(src[p], start[p]) = NEHigh
        /\ view[p]["init_stack"].hi >= 32768

\* C3: check_magic on a decoded record returns Ok exactly when the first two
\* source bytes of the record are 0x4E 0x45, whatever the other 62 are, and
\* Err otherwise; a source that starts with MZ decodes and fails only here.
C3_MagicIff ==
    \A p \in Procs :
        \A j \in 1..Len(magicRes[p]) :
            LET b == Window(src[p], start[p])
            IN  /\ magicRes[p][j].tag = "Ok" <=> (b[1] = 78 /\ b[2] = 69)
                /\ magicRes[p][j].tag # "Ok" =>
                        magicRes[p][j] = Err("InvalidInput")

\* An MZ buffer decoded into a record on which check_magic has failed.
C3_Witness ==
    \E p \in Procs :
        /\ HasRecord(p)
        /\ Window(src[p], start[p]) = MZVec
        /\ magicRes[p] = <<Err("InvalidInput")>>

\* C4: a decode of a source that holds fewer than 64 bytes from where the
\* decode was entered returns Err and no record: UnexpectedEof, or the error
\* of the read call that failed.
C4_ShortSourceFails ==
    \A p \in Procs :
        ( /\ pc[p] = "done"
          /\ Available(src[p], start[p]) < HeaderBytes )
        => /\ Last(results[p]).tag = "Err"
           /\ "hdr" \notin DOMAIN Last(results[p])
           /\ Last(results[p]).kind =
                IF lastRead[p] \in ErrorKinds THEN lastRead[p]
                ELSE "UnexpectedEof"

\* A source of 63 bytes read to its end in several read calls, and refused.
C4_Witness ==
    \E p \in Procs :
        /\ pc[p] = "done"
        /\ Available(src[p], start[p]) = 63
        /\ pos[p] = Len(src[p].data)
        /\ ncalls[p] > 2
        /\ Last(results[p]) = Err("UnexpectedEof")

\* The fields sit at the offsets and have the widths of the specification's
\* table; every field starts where the one before it ends, the first at 0 and
\* the last ending at 64, which is the size of the record.
LayoutMatchesTable ==
    /\ Len(Fields) = Len(SpecTable)
    /\ \A i \in 1..Len(Fields) :
         /\ FieldName(i) = SpecTable[i][2]
         /\ FieldOffset(i, lualign) = SpecTable[i][1]
         /\ KindSize(FieldKind(i)) = SpecTable[i][3]
         /\ FieldOffset(i, lualign) =
                IF i = 1 THEN 0 ELSE FieldEnd(i - 1, lualign)
    /\ FieldEnd(Len(Fields), lualign) = HeaderBytes
    /\ SizeOfNeHeader(lualign) = HeaderBytes

\* C5 as stated: the record is a flat aggregate of exactly 29 fields, laid out
\* as the table says, contiguous, covering bytes 0..63.
C5_Layout29 == Len(Fields) = 29 /\ LayoutMatchesTable

\* C5 as amended: the record is a flat aggregate of exactly 30 fields, the 30
\* rows of the table, laid out as the table says, contiguous, without padding,
\* covering bytes 0..63.
C5_Layout30 == Len(Fields) = 30 /\ LayoutMatchesTable

\* A record cast from a full buffer in a build that aligns Lu16 and Lu32
\* naturally.
C5_Witness ==
    \E p \in Procs :
        /\ HasRecord(p)
        /\ lualign = "natural"
        /\ Len(RecordBytes(Record(p), lualign)) = HeaderBytes

\* C6: a decode that returns Ok leaves the source 64 bytes past where the
\* decode was entered; after k decodes of one source that all returned Ok the
\* source is 64 * k bytes past its first position and the j-th record is the
\* j-th run of 64 source bytes.  The bytes of the source are as they were.
C6_Consumes64 ==
    \A p \in Procs :
        pc[p] = "done" =>
            /\ Last(results[p]).tag = "Ok" => pos[p] = start[p] + 64
            /\ (\A j \in 1..Len(results[p]) : results[p][j].tag = "Ok") =>
                 /\ pos[p] = src[p].start + 64 * Len(results[p])
                 /\ \A j \in 1..Len(results[p]) :
                      RecordBytes(results[p][j].hdr, lualign)
                        = Window(src[p], src[p].start + 64 * (j - 1))

\* Two decodes in a row of a source entered at position 3.
C6_Witness ==
    \E p \in Procs :
        /\ pc[p] = "done"
        /\ src[p].start = 3
        /\ Len(results[p]) >= 2
        /\ results[p][1].tag = "Ok"
        /\ results[p][2].tag = "Ok"
        /\ pos[p] = 131

\* C7: no error a decode returns has the error kind that check_magic returns
\* for a bad signature: the caller that holds both can tell them apart.
C7_DistinctErrors ==
    \A p \in Procs :
        \A i \in 1..Len(results[p]) :
            \A j \in 1..Len(magicRes[p]) :
                (results[p][i].tag = "Err" /\ magicRes[p][j].tag = "Err")
                => magicRes[p][j].kind # results[p][i].kind

C9_Idempotent ==
    \A p \in Procs :
        Len(magicRes[p]) > 0 =>
            /\ \A i, j \in 1..Len(magicRes[p]) : magicRes[p][i] = magicRes[p][j]
            /\ HasRecord(p)
            /\ RecordBytes(Record(p), lualign) = Window(src[p], start[p])

\* check_magic called at least twice on a record that has the signature.
C9_Witness ==
    \E p \in Procs :
        /\ Len(magicRes[p]) >= 2
        /\ magicRes[p][1] = OkUnit
        /\ Window(src[p], start[p]) = NEHigh

\* What k decodes of source s return when nothing else runs: the decode state
\* after them.
RECURSIVE RunDecode(_, _, _)
RunDecode(st, s, mode) ==
    IF st.pc = "done" THEN st
    ELSE RunDecode(read_exact_step(st, s, mode), s, mode)

RECURSIVE RunAlone(_, _, _)
RunAlone(s, k, mode) ==
    IF k = 0 THEN InitSt(s)
    ELSE RunDecode(read_enter(RunAlone(s, k - 1, mode)), s, mode)

\* C10: of two decodes that run at once on two sources, whatever the order of
\* their read calls, each returns what it returns when it runs alone and
\* leaves its source where it leaves it when it runs alone; a decode under way
\* holds bytes of its own source only.
C10_Independent ==
    \A p \in Procs :
        /\ pc[p] = "done" =>
             LET alone == RunAlone(src[p], Len(results[p]), lualign)
             IN  /\ results[p] = alone.results
                 /\ pos[p] = alone.pos
                 /\ ncalls[p] = alone.ncalls
        /\ pc[p] = "reading" =>
             /\ pos[p] = start[p] + filled[p]
             /\ SubSeq(buf[p], 1, filled[p])
                  = SubSeq(src[p].data, start[p] + 1, start[p] + filled[p])

\* Both decodes under way at once, each with part of its buffer filled, one
\* of them in its second decode.
C10_Witness ==
    /\ Procs = {1, 2}
    /\ pc[1] = "reading" /\ filled[1] > 0 /\ Len(results[1]) = 1
    /\ pc[2] = "reading" /\ filled[2] > 0
    /\ results[1][1].tag = "Ok"
    /\ src[1] # src[2]

=============================================================================
